---- MODULE Spec2Model ----
(***************************************************************************)
(* State-machine model of the city property / environment scraper:         *)
(*   src/src/environment_scraper.py  EnvironmentScraper                    *)
(*   src/src/database.py             Property, Environment, DatabaseManager*)
(*   src/src/data_manager.py         DataManager                           *)
(*   src/import_csv_to_db.py         import_properties_csv                 *)
(*                                                                         *)
(* Python values are tagged records, so that values of different Python    *)
(* types can be compared: [int |-> n], [float |-> h] (h in hundredths),    *)
(* [str |-> s], [none |-> TRUE], [obj |-> record], [arr |-> sequence].     *)
(* A Python dict built by the program is a TLA+ record key |-> value.      *)
(***************************************************************************)
EXTENDS Integers, Sequences, FiniteSets, TLC

VARIABLES
    pc,           \* position of EnvironmentScraper.scrape
    args,         \* (city, state) of the scrape call in progress
    weather,      \* local `weather` of scrape
    coord,        \* lat/lon obtained by the geocode request of get_air_quality
    air_quality,  \* local `air_quality` of scrape
    result,       \* what scrape gave back to its caller
    sent,         \* the HTTP requests sent, with the response each one got
    properties,   \* committed rows of table `properties`, in insertion order
    environment,  \* committed rows of table `environment`, in insertion order
    session,      \* the SQLAlchemy session of DatabaseManager
    call,         \* the last persistence call and how it ended
    batch,        \* the property batch being saved, and the loop's position in it
    csv,          \* the last CSV file written by DataManager
    now,          \* the wall clock, in ticks
    writes,       \* the paths DataManager wrote a CSV file to, in order
    ret,          \* what the last CSV save or CSV replay gave back to its caller
    prop_data,    \* the dict PropertyScraper.scrape returned, held by the caller
    requests_json_error  \* whether the installed requests raises its own
                         \* JSONDecodeError (a RequestException) from response.json()

scraperVars == <<pc, args, weather, coord, air_quality, result, sent>>
csvVars == <<csv, now, writes, ret, prop_data>>
storeVars == <<properties, environment, session, call, batch>>
vars == <<pc, args, weather, coord, air_quality, result, sent,
          properties, environment, session, call, batch, csv, now,
          writes, ret, prop_data, requests_json_error>>

(***************************************************************************)
(* Python values                                                           *)
(***************************************************************************)
None == [none |-> TRUE]
PyInt(n) == [int |-> n]
PyFloat(h) == [float |-> h]
PyStr(s) == [str |-> s]
JObj(r) == [obj |-> r]
JArr(s) == [arr |-> s]
Raised(e) == [exc |-> e]

IsRaised(v) == "exc" \in DOMAIN v

\* bool(v) of a decoded JSON value or of a dict built by the program
Truthy(v) ==
    IF "none" \in DOMAIN v THEN FALSE
    ELSE IF "arr" \in DOMAIN v THEN Len(v.arr) > 0
    ELSE IF "str" \in DOMAIN v THEN v.str # ""
    ELSE IF "int" \in DOMAIN v THEN v.int # 0
    ELSE IF "float" \in DOMAIN v THEN v.float # 0
    ELSE TRUE

\* v[k] for a string key k
GetKey(v, k) ==
    IF IsRaised(v) THEN v
    ELSE IF "obj" \in DOMAIN v
         THEN IF k \in DOMAIN v.obj THEN v.obj[k] ELSE Raised("KeyError")
    ELSE Raised("TypeError")

\* v[i] for an integer index i (0-based)
GetIndex(v, i) ==
    IF IsRaised(v) THEN v
    ELSE IF "arr" \in DOMAIN v
         THEN IF i < Len(v.arr) THEN v.arr[i + 1] ELSE Raised("IndexError")
    ELSE IF "obj" \in DOMAIN v THEN Raised("KeyError")
    ELSE IF "str" \in DOMAIN v
         THEN IF v.str # "" THEN PyStr("c") ELSE Raised("IndexError")
    ELSE Raised("TypeError")

\* the first exception raised while evaluating a sequence of expressions in order
RECURSIVE FirstRaised(_)
FirstRaised(vals) ==
    IF vals = <<>> THEN None
    ELSE IF IsRaised(Head(vals)) THEN Head(vals)
    ELSE FirstRaised(Tail(vals))

(***************************************************************************)
(* HTTP responses of the provider, as requests.get sees them               *)
(***************************************************************************)
Cities == {"Austin", "Boston"}
StateCodes == {"TX", "MA"}

Transport(e) == [transport |-> e]
Http(status, body) == [status |-> status, body |-> body]
NotJson == [notjson |-> TRUE]
ErrorBody == JObj([cod |-> PyInt(401), message |-> PyStr("Invalid API key")])

MainObj == JObj([temp |-> PyFloat(7250), feels_like |-> PyFloat(7010),
                 humidity |-> PyInt(40), pressure |-> PyInt(1015)])
WeatherList == JArr(<<JObj([description |-> PyStr("clear sky")])>>)
WindObj == JObj([speed |-> PyFloat(460)])

WeatherBodyFull ==
    JObj([main |-> MainObj, weather |-> WeatherList, wind |-> WindObj,
          visibility |-> PyInt(10000)])
WeatherBodyNoVisibility ==
    JObj([main |-> MainObj, weather |-> WeatherList, wind |-> WindObj])

WellFormedWeather == {Http(200, WeatherBodyFull), Http(200, WeatherBodyNoVisibility)}

WeatherResponses ==
    WellFormedWeather \cup
    { Transport("ConnectionError"), Transport("Timeout"),
      Http(404, ErrorBody), Http(500, NotJson),
      Http(200, NotJson),
      \* key 'main' missing
      Http(200, JObj([weather |-> WeatherList, wind |-> WindObj])),
      \* 'weather' is an empty list
      Http(200, JObj([main |-> MainObj, weather |-> JArr(<<>>), wind |-> WindObj])),
      \* 'main' is null
      Http(200, JObj([main |-> None, weather |-> WeatherList, wind |-> WindObj])) }

GeoBodyFound == JArr(<<JObj([name |-> PyStr("place"), lat |-> PyFloat(3027),
                              lon |-> PyFloat(-9774)])>>)

WellFormedGeo == {Http(200, GeoBodyFound)}
EmptyGeo == Http(200, JArr(<<>>))

GeoResponses ==
    WellFormedGeo \cup
    { EmptyGeo,
      Transport("ConnectionError"), Transport("Timeout"),
      Http(401, ErrorBody), Http(200, NotJson),
      \* a JSON object instead of a list
      Http(200, ErrorBody),
      \* first element has no 'lat'
      Http(200, JArr(<<JObj([name |-> PyStr("place")])>>)),
      \* first element is not an object
      Http(200, JArr(<<None>>)) }

ComponentsObj == [co |-> PyFloat(20100), no2 |-> PyFloat(770), o3 |-> PyFloat(6866),
                  pm2_5 |-> PyFloat(50), pm10 |-> PyFloat(83)]
AqiBodyFull ==
    JObj([list |-> JArr(<<JObj([main |-> JObj([aqi |-> PyInt(2)]),
                                 components |-> JObj(ComponentsObj)])>>)])

WellFormedAqi == {Http(200, AqiBodyFull)}

AqiResponses ==
    WellFormedAqi \cup
    { Transport("ConnectionError"), Transport("Timeout"),
      Http(429, ErrorBody), Http(200, NotJson),
      \* 'list' is empty
      Http(200, JObj([list |-> JArr(<<>>)])),
      \* 'components' missing
      Http(200, JObj([list |-> JArr(<<JObj([main |-> JObj([aqi |-> PyInt(2)])])>>)])),
      \* 'components' is null
      Http(200, JObj([list |-> JArr(<<JObj([main |-> JObj([aqi |-> PyInt(2)]),
                                             components |-> None])>>)])) }

\* requests.get(...); response.raise_for_status(); response.json():
\* the decoded body, or the exception raised on the way.
\* json_error_is_request_exception: requests >= 2.27 raises
\* requests.exceptions.JSONDecodeError (a RequestException), older releases
\* raise a plain ValueError subclass.
FetchJson(resp, json_error_is_request_exception) ==
    IF "transport" \in DOMAIN resp THEN Raised(resp.transport)
    ELSE IF resp.status >= 400 /\ resp.status < 600 THEN Raised("HTTPError")
    ELSE IF resp.body = NotJson
         THEN IF json_error_is_request_exception
              THEN Raised("RequestsJSONDecodeError")
              ELSE Raised("ValueError")
    ELSE resp.body

IsRequestException(e) ==
    e \in {"ConnectionError", "Timeout", "HTTPError", "RequestsJSONDecodeError"}

\* except requests.RequestException / except (KeyError, IndexError): return None;
\* any other exception leaves the method
ExceptClauses(outcome) ==
    IF IsRaised(outcome)
       /\ (IsRequestException(outcome.exc) \/ outcome.exc \in {"KeyError", "IndexError"})
    THEN None
    ELSE outcome

(***************************************************************************)
(* EnvironmentScraper                                                      *)
(***************************************************************************)
WeatherDict(city, state, data) ==
    LET main == GetKey(data, "main")
        fields == << GetKey(main, "temp"), GetKey(main, "feels_like"),
                     GetKey(main, "humidity"), GetKey(main, "pressure"),
                     GetKey(GetIndex(GetKey(data, "weather"), 0), "description"),
                     GetKey(GetKey(data, "wind"), "speed") >>
        visibility == IF "visibility" \in DOMAIN data.obj
                      THEN data.obj.visibility ELSE PyStr("N/A")
    IN  IF IsRaised(data) THEN data
        ELSE IF FirstRaised(fields) # None THEN FirstRaised(fields)
        ELSE [city |-> PyStr(city), state |-> PyStr(state),
              temperature |-> fields[1], feels_like |-> fields[2],
              humidity |-> fields[3], pressure |-> fields[4],
              weather_description |-> fields[5], wind_speed |-> fields[6],
              visibility |-> visibility]

\* the weather dict, None, or Raised(e) for an exception that leaves the method
get_weather_data(city, state, resp, jerr) ==
    ExceptClauses(WeatherDict(city, state, FetchJson(resp, jerr)))

Geocode_default_coordinates(resp, jerr) ==
    LET geo_data == FetchJson(resp, jerr)
        first == GetIndex(geo_data, 0)
        latlon == << GetKey(first, "lat"), GetKey(first, "lon") >>
    IN  IF IsRaised(geo_data) THEN ExceptClauses(geo_data)
        ELSE IF ~Truthy(geo_data) THEN [lat |-> PyFloat(0), lon |-> PyFloat(0)]
        ELSE IF FirstRaised(latlon) # None THEN ExceptClauses(FirstRaised(latlon))
        ELSE [lat |-> latlon[1], lon |-> latlon[2]]

\* lines 90-110: the geocode request; None, Raised(e), or the coordinates
Geocode(resp, jerr) ==
    LET geo_data == FetchJson(resp, jerr)
        first == GetIndex(geo_data, 0)
        latlon == << GetKey(first, "lat"), GetKey(first, "lon") >>
    IN  IF IsRaised(geo_data) THEN ExceptClauses(geo_data)
        ELSE IF ~Truthy(geo_data) THEN None
        ELSE IF FirstRaised(latlon) # None THEN ExceptClauses(FirstRaised(latlon))
        ELSE [lat |-> latlon[1], lon |-> latlon[2]]

AirQualityDict_state_from_city(city, state, aqi_data) ==
    LET first == GetIndex(GetKey(aqi_data, "list"), 0)
        components == GetKey(first, "components")
        fields == << components, GetKey(GetKey(first, "main"), "aqi"),
                     GetKey(components, "co"), GetKey(components, "no2"),
                     GetKey(components, "o3"), GetKey(components, "pm2_5"),
                     GetKey(components, "pm10") >>
    IN  IF FirstRaised(fields) # None THEN FirstRaised(fields)
        ELSE [city |-> PyStr(city), state |-> PyStr(city), aqi |-> fields[2],
              co |-> fields[3], no2 |-> fields[4], o3 |-> fields[5],
              pm2_5 |-> fields[6], pm10 |-> fields[7]]

AirQualityDict(city, state, aqi_data) ==
    LET first == GetIndex(GetKey(aqi_data, "list"), 0)
        components == GetKey(first, "components")
        fields == << components, GetKey(GetKey(first, "main"), "aqi"),
                     GetKey(components, "co"), GetKey(components, "no2"),
                     GetKey(components, "o3"), GetKey(components, "pm2_5"),
                     GetKey(components, "pm10") >>
    IN  IF FirstRaised(fields) # None THEN FirstRaised(fields)
        ELSE [city |-> PyStr(city), state |-> PyStr(state), aqi |-> fields[2],
              co |-> fields[3], no2 |-> fields[4], o3 |-> fields[5],
              pm2_5 |-> fields[6], pm10 |-> fields[7]]

\* lines 112-147: the pollution request and the extraction
Pollution(city, state, resp, jerr) ==
    ExceptClauses(AirQualityDict(city, state, FetchJson(resp, jerr)))

\* lines 166-169: the envelope
Envelope(w, a) == [weather |-> w, air_quality |-> a]

Location(city, state) == <<city, state, "US">>

Request(endpoint, params, resp) ==
    [endpoint |-> endpoint, params |-> params, response |-> resp]

\* a caller invokes scrape(city, state)
ScrapeCall(city, state) ==
    /\ pc \in {"idle", "returned", "raised"}
    /\ pc' = "weather"
    /\ args' = [city |-> city, state |-> state]
    /\ weather' = None
    /\ coord' = None
    /\ air_quality' = None
    /\ result' = None
    /\ sent' = <<>>
    /\ requests_json_error' \in BOOLEAN
    /\ UNCHANGED <<storeVars, csvVars>>

\* line 162: weather = self.get_weather_data(city, state)
WeatherRequest(resp) ==
    /\ pc = "weather"
    /\ LET w == get_weather_data(args.city, args.state, resp, requests_json_error)
       IN  /\ sent' = Append(sent, Request("weather",
                         [q |-> Location(args.city, args.state), units |-> "imperial"],
                         resp))
           /\ IF IsRaised(w)
              THEN /\ pc' = "raised"
                   /\ result' = w
                   /\ UNCHANGED weather
              ELSE /\ pc' = "geocode"
                   /\ weather' = w
                   /\ UNCHANGED result
    /\ UNCHANGED <<args, coord, air_quality, storeVars, csvVars, requests_json_error>>

\* line 163, first half of get_air_quality: the geocode request
GeocodeRequest(resp) ==
    /\ pc = "geocode"
    /\ LET g == Geocode(resp, requests_json_error)
       IN  /\ sent' = Append(sent, Request("geocode",
                         [q |-> Location(args.city, args.state), limit |-> 1], resp))
           /\ IF IsRaised(g)
              THEN /\ pc' = "raised"
                   /\ result' = g
                   /\ UNCHANGED <<coord, air_quality>>
              ELSE IF g = None
              THEN /\ pc' = "returned"
                   /\ air_quality' = None
                   /\ result' = Envelope(weather, None)
                   /\ UNCHANGED coord
              ELSE /\ pc' = "pollution"
                   /\ coord' = g
                   /\ UNCHANGED <<air_quality, result>>
    /\ UNCHANGED <<args, weather, storeVars, csvVars, requests_json_error>>

\* line 163, second half of get_air_quality: the pollution request; then
\* scrape builds the envelope and returns it
PollutionRequest(resp) ==
    /\ pc = "pollution"
    /\ LET a == Pollution(args.city, args.state, resp, requests_json_error)
       IN  /\ sent' = Append(sent, Request("air_pollution",
                         [lat |-> coord.lat, lon |-> coord.lon], resp))
           /\ IF IsRaised(a)
              THEN /\ pc' = "raised"
                   /\ result' = a
                   /\ UNCHANGED air_quality
              ELSE /\ pc' = "returned"
                   /\ air_quality' = a
                   /\ result' = Envelope(weather, a)
    /\ UNCHANGED <<args, weather, coord, storeVars, csvVars, requests_json_error>>

(***************************************************************************)
(* The relational store: tables, constraints and the SQLAlchemy session    *)
(***************************************************************************)
PropertyColumns ==
    {"property_id", "city", "state", "address", "neighborhood", "property_type",
     "price", "bedrooms", "bathrooms", "sqft", "year_built", "lot_size",
     "scrape_timestamp"}
PropertyNotNull == {"property_id", "city", "state"}
PropertyUnique_dropped == {}
PropertyUnique == {"property_id"}

EnvironmentColumns ==
    {"city", "state", "temperature", "feels_like", "humidity", "pressure",
     "weather_description", "wind_speed", "visibility", "aqi", "co", "no2", "o3",
     "pm2_5", "pm10", "scrape_timestamp"}
EnvironmentNotNull == {"city", "state"}
EnvironmentUnique_city_state == {"city", "state"}
EnvironmentUnique == {}

Columns(table) == IF table = "properties" THEN PropertyColumns ELSE EnvironmentColumns
NotNull(table) == IF table = "properties" THEN PropertyNotNull ELSE EnvironmentNotNull
Unique(table) == IF table = "properties" THEN PropertyUnique ELSE EnvironmentUnique

\* Property(**data) / Environment(**data): a column not given is None
\* (scrape_timestamp has default=datetime.utcnow)
DefaultTimestamp == [datetime |-> "utcnow"]

Row(table, data) ==
    [c \in Columns(table) |->
        IF c \in DOMAIN data THEN data[c]
        ELSE IF c = "scrape_timestamp" THEN DefaultTimestamp
        ELSE None]

IntegrityError(constraint, table, column) ==
    [exc |-> "IntegrityError", constraint |-> constraint,
     table |-> table, column |-> column]

\* the message of a PendingRollbackError quotes the exception that ended the
\* transaction ("Original exception was: ...")
PendingRollbackError(original) ==
    [exc |-> "PendingRollbackError", constraint |-> original.constraint,
     table |-> original.table, column |-> original.column]

TypeError(table) ==
    [exc |-> "TypeError", constraint |-> "", table |-> table, column |-> ""]

\* the constraint an INSERT of row into rows violates, or None
InsertError(table, rows, row) ==
    IF \E c \in NotNull(table) : row[c] = None
    THEN IntegrityError("NOT NULL", table,
                        CHOOSE c \in NotNull(table) : row[c] = None)
    ELSE IF \E c \in Unique(table) :
               \E k \in 1..Len(rows) : rows[k][c] = row[c]
    THEN IntegrityError("UNIQUE", table,
                        CHOOSE c \in Unique(table) :
                            \E k \in 1..Len(rows) : rows[k][c] = row[c])
    ELSE None

Db(props, envs, sess) == [properties |-> props, environment |-> envs, session |-> sess]

ActiveSession == [state |-> "ACTIVE", rollback_exception |-> None]

Insert(db, table, row) ==
    IF table = "properties"
    THEN Db(Append(db.properties, row), db.environment, ActiveSession)
    ELSE Db(db.properties, Append(db.environment, row), ActiveSession)

\* obj = Model(**data); session.add(obj); session.commit(): the store after it and
\* the exception raised (None: none).
\* commit() flushes the pending object as one INSERT and commits it.  A failed
\* flush rolls the transaction back, expunges the pending object and leaves the
\* session inactive: every later commit() raises PendingRollbackError before it
\* flushes anything, until session.rollback() is called.  An object added to an
\* inactive session is therefore never written (rollback() discards it), and
\* the model does not keep it.
AddAndCommit(db, table, data) ==
    LET row == Row(table, data)
        rows == IF table = "properties" THEN db.properties ELSE db.environment
        err == InsertError(table, rows, row)
    IN  IF ~(DOMAIN data \subseteq Columns(table))
        THEN [db |-> db, exc |-> TypeError(table)]
        ELSE IF db.session.state = "DEACTIVE"
        THEN [db |-> db, exc |-> PendingRollbackError(db.session.rollback_exception)]
        ELSE IF err # None
        THEN [db |-> Db(db.properties, db.environment,
                        [state |-> "DEACTIVE", rollback_exception |-> err]),
              exc |-> err]
        ELSE [db |-> Insert(db, table, row), exc |-> None]

\* DatabaseManager.save_property
save_property(db, property_data) == AddAndCommit(db, "properties", property_data)

\* DatabaseManager.save_environment
save_environment(db, env_data) == AddAndCommit(db, "environment", env_data)

rollback_undoing_last_commit(db) ==
    Db(SubSeq(db.properties, 1, Len(db.properties) - 1), db.environment,
       ActiveSession)

\* db.session.rollback()
rollback(db) == Db(db.properties, db.environment, ActiveSession)

(***************************************************************************)
(* Inputs of the persistence layer                                         *)
(***************************************************************************)
MaxEnvRows == 2
MaxBatch == 2

\* PropertyScraper.scrape_properties: f"PROP-{city[:3].upper()}-{1000 + i}"
PropertyId(city, i) ==
    "PROP-" \o (IF city = "Austin" THEN "AUS" ELSE "BOS") \o "-" \o ToString(1000 + i)

ScrapedProperty(city, state, i, price) ==
    [property_id |-> PyStr(PropertyId(city, i)), city |-> PyStr(city),
     state |-> PyStr(state), address |-> PyStr("100 Main St"),
     neighborhood |-> PyStr("Downtown"), property_type |-> PyStr("Condo"),
     price |-> PyInt(price), bedrooms |-> PyInt(3), bathrooms |-> PyInt(2),
     sqft |-> PyInt(1500), year_built |-> PyInt(1999), lot_size |-> PyInt(5000)]

\* property dicts of two runs of the scraper (the ids repeat from run to run)
BatchInputs ==
    { ScrapedProperty("Austin", "TX", 0, 200000),
      ScrapedProperty("Austin", "TX", 1, 200000),
      ScrapedProperty("Boston", "MA", 0, 200000) }
PropertyInputs == BatchInputs \cup { ScrapedProperty("Austin", "TX", 0, 800000) }

\* property lists handed to a batch save
PropertyLists ==
    UNION { [1..n -> BatchInputs] : n \in 0..MaxBatch }

\* envelopes scrape returns for one place
WeatherInputs ==
    { get_weather_data("Austin", "TX", r, TRUE) : r \in WellFormedWeather } \cup {None}
AirQualityInputs ==
    { Pollution("Austin", "TX", r, TRUE) : r \in WellFormedAqi } \cup {None}
EnvelopeInputs == { Envelope(w, a) : w \in WeatherInputs, a \in AirQualityInputs }

\* envelopes of the runs of main
MainEnvelopes ==
    { Envelope(w, a) :
        w \in {get_weather_data("Austin", "TX", Http(200, WeatherBodyFull), TRUE), None},
        a \in AirQualityInputs }

(***************************************************************************)
(* Calls on DatabaseManager                                                *)
(***************************************************************************)
CurrentDb == Db(properties, environment, session)

Store(db) ==
    /\ properties' = db.properties
    /\ environment' = db.environment
    /\ session' = db.session

Call(op, arg, exc) == [op |-> op, arg |-> arg, exc |-> exc]

NoBatch ==
    [caller |-> "none", rows |-> <<>>, i |-> 1, stored_before |-> {},
     pending_before |-> None]
BatchIdle == batch.caller = "none" \/ batch.i > Len(batch.rows)

\* a caller invokes db.save_property(property_data); an exception reaches the caller
SaveProperty(property_data) ==
    /\ BatchIdle
    /\ LET r == save_property(CurrentDb, property_data)
       IN  /\ Store(r.db)
           /\ call' = Call("save_property", property_data, r.exc)
    /\ batch' = NoBatch
    /\ UNCHANGED <<scraperVars, csvVars, requests_json_error>>

\* a caller invokes db.save_environment(env_data)
SaveEnvironment(env_data) ==
    /\ BatchIdle
    /\ Len(environment) < MaxEnvRows
    /\ LET r == save_environment(CurrentDb, env_data)
       IN  /\ Store(r.db)
           /\ call' = Call("save_environment", env_data, r.exc)
    /\ batch' = NoBatch
    /\ UNCHANGED <<scraperVars, csvVars, requests_json_error>>

\* a caller invokes db.session.rollback()
Rollback ==
    /\ BatchIdle
    /\ Store(rollback(CurrentDb))
    /\ call' = Call("rollback", None, None)
    /\ batch' = NoBatch
    /\ UNCHANGED <<scraperVars, csvVars, requests_json_error>>

(***************************************************************************)
(* DataManager and the CSV importer                                        *)
(***************************************************************************)
\* DataManager(): use_database defaults to True, main uses the default
use_database == TRUE

\* d.get(k)
Get(d, k) == IF k \in DOMAIN d THEN d[k] ELSE None

\* d without key k
Without(d, k) == [x \in DOMAIN d \ {k} |-> d[x]]

WeatherKeys ==
    {"city", "state", "temperature", "feels_like", "humidity", "pressure",
     "weather_description", "wind_speed", "visibility"}
AirQualityKeys == {"aqi", "co", "no2", "o3", "pm2_5", "pm10"}

\* save_environment_to_db, lines 160-181: env_data
EnvData(data) ==
    LET w == IF Truthy(data.weather)
             THEN [k \in WeatherKeys |-> Get(data.weather, k)] ELSE <<>>
        a == IF Truthy(data.air_quality)
             THEN [k \in AirQualityKeys |-> Get(data.air_quality, k)] ELSE <<>>
    IN  w @@ a

\* DataManager.save_environment_to_db(data); every exception is logged, none leaves
SaveEnvironmentToDb(data) ==
    /\ BatchIdle
    /\ Len(environment) < MaxEnvRows
    /\ IF use_database
       THEN LET r == save_environment(CurrentDb, EnvData(data))
            IN  /\ Store(r.db)
                /\ call' = Call("save_environment_to_db", data, r.exc)
       ELSE /\ UNCHANGED <<properties, environment, session>>
            /\ call' = Call("save_environment_to_db", data, None)
    /\ batch' = NoBatch
    /\ UNCHANGED <<scraperVars, csvVars, requests_json_error>>

StoredIds == { properties[k].property_id : k \in 1..Len(properties) }

\* the loop's list and position; stored_before and pending_before record the
\* stored ids and the session's pending failure when the batch began
StartBatch(caller, rows) ==
    [caller |-> caller, rows |-> rows, i |-> 1, stored_before |-> StoredIds,
     pending_before |-> session.rollback_exception]

\* DataManager.save_properties_to_db(data): properties = data.get('properties', [])
SavePropertiesToDb(rows) ==
    /\ BatchIdle
    /\ use_database
    /\ batch' = StartBatch("save_properties_to_db", rows)
    /\ call' = Call("save_properties_to_db", None, None)
    /\ UNCHANGED <<properties, environment, session>>
    /\ UNCHANGED <<scraperVars, csvVars, requests_json_error>>

LoopBody_del_in_place(prop) ==
    [prop |-> Without(prop, "scrape_timestamp"),
     prop_copy |-> Without(prop, "scrape_timestamp")]

\* lines 139-141: prop_copy = prop.copy(); del prop_copy['scrape_timestamp'] if
\* it is there: the dict of the list after the statements, and the copy
LoopBody(prop) ==
    [prop |-> prop, prop_copy |-> Without(prop, "scrape_timestamp")]

\* one iteration of the loop of save_properties_to_db, lines 136-146.  The
\* list the loop walks is the list object the caller passed: when that is the
\* list of the caller's prop_data, the caller sees what the loop does to it.
SavePropertiesToDbStep ==
    /\ batch.caller = "save_properties_to_db"
    /\ batch.i <= Len(batch.rows)
    /\ LET body == LoopBody(batch.rows[batch.i])
           r == save_property(CurrentDb, body.prop_copy)
           rows_after == [batch.rows EXCEPT ![batch.i] = body.prop]
       IN  /\ Store(r.db)
           /\ call' = Call("save_properties_to_db", body.prop_copy, r.exc)
           /\ batch' = [batch EXCEPT !.i = @ + 1, !.rows = rows_after]
           /\ prop_data' = IF prop_data # None /\ prop_data.properties = batch.rows
                           THEN [prop_data EXCEPT !.properties = rows_after]
                           ELSE prop_data
    /\ UNCHANGED <<csv, now, writes, ret>>
    /\ UNCHANGED <<scraperVars, requests_json_error>>

PropertyDataKeys ==
    {"property_id", "city", "state", "address", "neighborhood", "property_type",
     "price", "bedrooms", "bathrooms", "sqft", "year_built", "lot_size"}

\* import_properties_csv(csv_path, db): df = pd.read_csv(csv_path)
ImportPropertiesCsv(rows) ==
    /\ BatchIdle
    /\ batch' = StartBatch("import_properties_csv", rows)
    /\ call' = Call("import_properties_csv", None, None)
    /\ UNCHANGED <<properties, environment, session>>
    /\ UNCHANGED <<scraperVars, csvVars, requests_json_error>>

\* one iteration of the loop of import_properties_csv, lines 13-38
ImportPropertiesCsvStep ==
    /\ batch.caller = "import_properties_csv"
    /\ batch.i <= Len(batch.rows)
    /\ LET row == batch.rows[batch.i]
           property_data == [k \in PropertyDataKeys |-> row[k]]
           r == save_property(CurrentDb, property_data)
       IN  /\ IF r.exc # None THEN Store(rollback(r.db)) ELSE Store(r.db)
           /\ call' = Call("import_properties_csv", property_data, r.exc)
    /\ batch' = [batch EXCEPT !.i = @ + 1]
    /\ UNCHANGED <<scraperVars, csvVars, requests_json_error>>

\* DatabaseManager(): a new process opens a new session on the same database file
NewDatabaseManager ==
    /\ BatchIdle
    /\ session.state = "DEACTIVE"
    /\ session' = ActiveSession
    /\ call' = Call("DatabaseManager", None, None)
    /\ batch' = NoBatch
    /\ UNCHANGED <<properties, environment>>
    /\ UNCHANGED <<scraperVars, csvVars, requests_json_error>>

(***************************************************************************)
(* CSV projection                                                          *)
(***************************************************************************)
MaxTime == 3
TicksPerSecond == 2
MaxWrites == 2

\* datetime.now().strftime("%Y%m%d_%H%M%S"): the clock cut to whole seconds
Timestamp(t) == PyStr(ToString(t \div TicksPerSecond))

\* insertion order of the keys of the dicts built at
\* environment_scraper.py lines 57-67 and 128-137
WeatherKeyOrder ==
    <<"city", "state", "temperature", "feels_like", "humidity", "pressure",
      "weather_description", "wind_speed", "visibility">>
AirQualityKeyOrder ==
    <<"city", "state", "aqi", "co", "no2", "o3", "pm2_5", "pm10">>

\* a column named f'{prefix}{key}'
Column(prefix, key) == [prefix |-> prefix, key |-> key]

\* for key, value in d.items(): flattened[f'{prefix}{key}'] = value
RECURSIVE PrefixedItems(_, _, _)
PrefixedItems(prefix, d, order) ==
    IF order = <<>> THEN <<>>
    ELSE IF Head(order) \in DOMAIN d
    THEN <<[column |-> Column(prefix, Head(order)), value |-> d[Head(order)]]>>
         \o PrefixedItems(prefix, d, Tail(order))
    ELSE PrefixedItems(prefix, d, Tail(order))

Flattened_fixed_width(data, timestamp) ==
    PrefixedItems("weather_",
                  IF Truthy(data.weather) THEN data.weather
                  ELSE [k \in WeatherKeys |-> None], WeatherKeyOrder)
    \o PrefixedItems("air_quality_",
                     IF Truthy(data.air_quality) THEN data.air_quality
                     ELSE [k \in AirQualityKeys \cup {"city", "state"} |-> None],
                     AirQualityKeyOrder)
    \o <<[column |-> Column("", "scrape_timestamp"), value |-> timestamp]>>

\* save_environment_data, lines 70-82: flattened, as its items in insertion order
Flattened(data, timestamp) ==
    (IF Truthy(data.weather)
     THEN PrefixedItems("weather_", data.weather, WeatherKeyOrder) ELSE <<>>)
    \o (IF Truthy(data.air_quality)
        THEN PrefixedItems("air_quality_", data.air_quality, AirQualityKeyOrder)
        ELSE <<>>)
    \o <<[column |-> Column("", "scrape_timestamp"), value |-> timestamp]>>

\* f"{kind}_{city}_{state}_{timestamp}.csv" in output_dir
FilePath(kind, city, state, timestamp) ==
    [kind |-> kind, city |-> city, state |-> state, timestamp |-> timestamp]

\* pd.DataFrame([flattened]): a header with the keys and one row with the values
OneRowFrame(items) ==
    [header |-> [k \in 1..Len(items) |-> items[k].column],
     rows |-> << [k \in 1..Len(items) |-> items[k].value] >>]

\* float('nan'), the missing value of pandas
NaN == [nan |-> TRUE]

\* the text of one cell of a CSV file: an integer literal, a decimal literal,
\* other text, or nothing
IntCell(n) == [digits |-> n]
DecimalCell(h) == [decimal |-> h]
TextCell(t) == [text |-> t]
EmptyCell == [empty |-> TRUE]

\* how to_csv writes a value: repr of a float always has a decimal point, a
\* string is written as it is, None and NaN are written as nothing
ToCsvCell(v) ==
    IF "int" \in DOMAIN v THEN IntCell(v.int)
    ELSE IF "float" \in DOMAIN v THEN DecimalCell(v.float)
    ELSE IF "str" \in DOMAIN v
         THEN (IF v.str = "" THEN EmptyCell ELSE TextCell(v.str))
    ELSE EmptyCell

\* df.to_csv(filepath, index=False): the file at filepath
to_csv(filepath, df) ==
    [path |-> filepath, header |-> df.header,
     rows |-> [r \in 1..Len(df.rows) |->
                 [k \in 1..Len(df.header) |-> ToCsvCell(df.rows[r][k])]]]

\* filepath is written: the file is created, or replaced when it exists
WriteCsv(filepath, df) ==
    /\ csv' = to_csv(filepath, df)
    /\ writes' = Append(writes, filepath)
    /\ ret' = filepath

\* DataManager.save_environment_data(data, city, state)
SaveEnvironmentData(data, city, state) ==
    /\ Len(writes) < MaxWrites
    /\ LET timestamp == Timestamp(now)
           df == OneRowFrame(Flattened(data, timestamp))
       IN  WriteCsv(FilePath("environment", city, state, timestamp), df)
    /\ call' = Call("save_environment_data", data, None)
    /\ UNCHANGED <<now, prop_data, properties, environment, session, batch>>
    /\ UNCHANGED <<scraperVars, requests_json_error>>

\* PropertyScraper.scrape(city, state, limit): the demo listings of a city
ScrapeProperties(city, state, limit) ==
    /\ prop_data' =
           [city |-> PyStr(city), state |-> PyStr(state),
            property_count |-> PyInt(limit),
            properties |-> [i \in 1..limit |->
                              ScrapedProperty(city, state, i - 1, 200000)]]
    /\ call' = Call("scrape_properties", None, None)
    /\ UNCHANGED <<csv, now, writes, ret, properties, environment, session, batch>>
    /\ UNCHANGED <<scraperVars, requests_json_error>>

\* insertion order of the keys of a property dict (property_scraper.py lines
\* 46-59), scrape_timestamp last when save_property_data has added it
PropertyKeyOrder ==
    <<"property_id", "city", "state", "address", "neighborhood", "property_type",
      "price", "bedrooms", "bathrooms", "sqft", "year_built", "lot_size",
      "scrape_timestamp">>

\* pd.DataFrame(dicts): one column per key, one row per dict, NaN for a key a
\* dict lacks
DataFrame(dicts, order) ==
    LET keys == UNION { DOMAIN dicts[r] : r \in 1..Len(dicts) }
        cols == SelectSeq(order, LAMBDA k : k \in keys)
    IN  [header |-> [k \in 1..Len(cols) |-> Column("", cols[k])],
         rows |-> [r \in 1..Len(dicts) |->
                     [k \in 1..Len(cols) |->
                        IF cols[k] \in DOMAIN dicts[r]
                        THEN dicts[r][cols[k]] ELSE NaN]]]

\* df[column] = value for a scalar value: every row of an existing column is
\* replaced, a new column is added last
SetColumn(df, column, value) ==
    IF \E k \in 1..Len(df.header) : df.header[k] = column
    THEN [header |-> df.header,
          rows |-> [r \in 1..Len(df.rows) |->
                      [k \in 1..Len(df.header) |->
                         IF df.header[k] = column THEN value ELSE df.rows[r][k]]]]
    ELSE [header |-> Append(df.header, column),
          rows |-> [r \in 1..Len(df.rows) |-> Append(df.rows[r], value)]]

RECURSIVE SetColumns(_, _)
SetColumns(df, items) ==
    IF items = <<>> THEN df
    ELSE SetColumns(SetColumn(df, Head(items).column, Head(items).value),
                    Tail(items))

\* save_property_data lines 115-116: prop['scrape_timestamp'] = timestamp, on
\* the dicts of the caller's list
Stamped(props, timestamp) ==
    [r \in 1..Len(props) |->
        [k \in DOMAIN props[r] \cup {"scrape_timestamp"} |->
            IF k = "scrape_timestamp" THEN timestamp ELSE props[r][k]]]

\* DataManager.save_property_data(data, city, state), data the caller's prop_data
SavePropertyData(city, state) ==
    /\ prop_data # None
    /\ BatchIdle
    /\ LET timestamp == Timestamp(now)
           props == prop_data.properties
       IN  IF props = <<>>
           THEN /\ ret' = PyStr("")
                /\ UNCHANGED <<csv, writes, prop_data>>
           ELSE /\ Len(writes) < MaxWrites
                /\ prop_data' = [prop_data EXCEPT
                                    !.properties = Stamped(props, timestamp)]
                /\ WriteCsv(FilePath("properties", city, state, timestamp),
                            DataFrame(Stamped(props, timestamp), PropertyKeyOrder))
    /\ call' = Call("save_property_data", prop_data, None)
    /\ UNCHANGED <<now, properties, environment, session, batch>>
    /\ UNCHANGED <<scraperVars, requests_json_error>>

\* save_combined_data lines 213-225: df_props
CombinedFrame(env_data, props, timestamp) ==
    LET df_props == DataFrame(props, PropertyKeyOrder)
        with_weather ==
            IF Truthy(env_data.weather)
            THEN SetColumns(df_props, PrefixedItems("weather_", env_data.weather,
                                                    WeatherKeyOrder))
            ELSE df_props
        with_air_quality ==
            IF Truthy(env_data.air_quality)
            THEN SetColumns(with_weather,
                            PrefixedItems("air_quality_", env_data.air_quality,
                                          AirQualityKeyOrder))
            ELSE with_weather
    IN  SetColumn(with_air_quality, Column("", "scrape_timestamp"), timestamp)

\* DataManager.save_combined_data(env_data, prop_data, city, state)
SaveCombinedData(env_data, city, state) ==
    /\ prop_data # None
    /\ BatchIdle
    /\ LET timestamp == Timestamp(now)
           props == prop_data.properties
       IN  IF props = <<>>
           THEN /\ ret' = PyStr("")
                /\ UNCHANGED <<csv, writes>>
           ELSE /\ Len(writes) < MaxWrites
                /\ WriteCsv(FilePath("combined", city, state, timestamp),
                            CombinedFrame(env_data, props, timestamp))
    /\ call' = Call("save_combined_data", env_data, None)
    /\ UNCHANGED <<now, prop_data, properties, environment, session, batch>>
    /\ UNCHANGED <<scraperVars, requests_json_error>>

\* time passes
Tick ==
    /\ now < MaxTime
    /\ now' = now + 1
    /\ UNCHANGED <<csv, writes, ret, prop_data>>
    /\ UNCHANGED <<storeVars, scraperVars, requests_json_error>>

(***************************************************************************)
(* Replay of a CSV file into the store (import_csv_to_db.py)               *)
(***************************************************************************)
\* the default na_values of pd.read_csv
NaValues ==
    {"#N/A", "#N/A N/A", "#NA", "-1.#IND", "-1.#QNAN", "-NaN", "-nan", "1.#IND",
     "1.#QNAN", "<NA>", "N/A", "NA", "NULL", "NaN", "None", "n/a", "nan", "null"}

IsNaCell(c) == "empty" \in DOMAIN c \/ ("text" \in DOMAIN c /\ c.text \in NaValues)
IsNumberCell(c) == "digits" \in DOMAIN c \/ "decimal" \in DOMAIN c

\* the dtype read_csv infers for column k
ColumnDtype(file, k) ==
    LET cells == { file.rows[r][k] : r \in 1..Len(file.rows) }
    IN  IF \A c \in cells : "digits" \in DOMAIN c THEN "int64"
        ELSE IF \A c \in cells : IsNumberCell(c) \/ IsNaCell(c) THEN "float64"
        ELSE "object"

\* the value read_csv gives a cell of a column of that dtype; in an object
\* column a cell that holds a number stays a string (strnum)
ReadCsvCell(c, dtype) ==
    IF dtype = "int64" THEN PyInt(c.digits)
    ELSE IF IsNaCell(c) THEN NaN
    ELSE IF dtype = "float64"
         THEN (IF "digits" \in DOMAIN c THEN PyFloat(100 * c.digits)
               ELSE PyFloat(c.decimal))
    ELSE IF "text" \in DOMAIN c THEN PyStr(c.text)
    ELSE [strnum |-> c]

\* df = pd.read_csv(csv_path)
read_csv(file) ==
    [header |-> file.header,
     rows |-> [r \in 1..Len(file.rows) |->
                 [k \in 1..Len(file.header) |->
                    ReadCsvCell(file.rows[r][k], ColumnDtype(file, k))]]]

\* row[column] of row r of df
RowGet(df, r, column) ==
    IF r > Len(df.rows) THEN Raised("IndexError")
    ELSE IF \E k \in 1..Len(df.header) : df.header[k] = column
    THEN df.rows[r][CHOOSE k \in 1..Len(df.header) : df.header[k] = column]
    ELSE Raised("KeyError")

\* int(v)
IntOf(v) ==
    IF IsRaised(v) THEN v
    ELSE IF "int" \in DOMAIN v THEN v
    ELSE IF "float" \in DOMAIN v
         THEN (IF v.float >= 0 THEN PyInt(v.float \div 100)
               ELSE PyInt(0 - ((0 - v.float) \div 100)))
    ELSE IF "strnum" \in DOMAIN v /\ "digits" \in DOMAIN v.strnum
         THEN PyInt(v.strnum.digits)
    ELSE IF "none" \in DOMAIN v THEN Raised("TypeError")
    ELSE Raised("ValueError")

\* float(v)
FloatOf(v) ==
    IF IsRaised(v) THEN v
    ELSE IF "int" \in DOMAIN v THEN PyFloat(100 * v.int)
    ELSE IF "float" \in DOMAIN v \/ "nan" \in DOMAIN v THEN v
    ELSE IF "strnum" \in DOMAIN v
         THEN (IF "digits" \in DOMAIN v.strnum THEN PyFloat(100 * v.strnum.digits)
               ELSE PyFloat(v.strnum.decimal))
    ELSE IF "none" \in DOMAIN v THEN Raised("TypeError")
    ELSE Raised("ValueError")

\* row r of df as iterrows gives it: row[k] for the keys the importer reads
\* (KeyError for a column the file lacks)
PropertyRow(df, r) ==
    [k \in PropertyDataKeys |-> RowGet(df, r, Column("", k))]

\* import_properties_csv lines 14-27: property_data of a row, or the exception
\* the dict display raises
PropertyData(row) ==
    LET fields == << row["property_id"], row["city"], row["state"],
                     row["address"], row["neighborhood"], row["property_type"],
                     IntOf(row["price"]), IntOf(row["bedrooms"]),
                     IntOf(row["bathrooms"]), IntOf(row["sqft"]),
                     IntOf(row["year_built"]), IntOf(row["lot_size"]) >>
    IN  IF FirstRaised(fields) # None THEN FirstRaised(fields)
        ELSE [property_id |-> fields[1], city |-> fields[2], state |-> fields[3],
              address |-> fields[4], neighborhood |-> fields[5],
              property_type |-> fields[6], price |-> fields[7],
              bedrooms |-> fields[8], bathrooms |-> fields[9], sqft |-> fields[10],
              year_built |-> fields[11], lot_size |-> fields[12]]

\* the loop of import_properties_csv from row r on: the store after it, and
\* the exception that left the function (None: none)
RECURSIVE ImportRows(_, _, _)
ImportRows(db, df, r) ==
    IF r > Len(df.rows) THEN [db |-> db, exc |-> None]
    ELSE LET property_data == PropertyData(PropertyRow(df, r))
             saved == save_property(db, property_data)
         IN  IF IsRaised(property_data) THEN [db |-> db, exc |-> property_data]
             ELSE ImportRows(IF saved.exc # None THEN rollback(saved.db)
                             ELSE saved.db, df, r + 1)

import_properties_csv(db, file) == ImportRows(db, read_csv(file), 1)

\* import_environment_csv lines 45-63: env_data of the first row, or the
\* exception raised on the way
EnvironmentData(df) ==
    LET W(k) == RowGet(df, 1, Column("weather_", k))
        A(k) == RowGet(df, 1, Column("air_quality_", k))
        fields == << W("city"), W("state"), FloatOf(W("temperature")),
                     FloatOf(W("feels_like")), IntOf(W("humidity")),
                     IntOf(W("pressure")), W("weather_description"),
                     FloatOf(W("wind_speed")), IntOf(W("visibility")),
                     IntOf(A("aqi")), FloatOf(A("co")), FloatOf(A("no2")),
                     FloatOf(A("o3")), FloatOf(A("pm2_5")), FloatOf(A("pm10")) >>
    IN  IF FirstRaised(fields) # None THEN FirstRaised(fields)
        ELSE [city |-> fields[1], state |-> fields[2], temperature |-> fields[3],
              feels_like |-> fields[4], humidity |-> fields[5],
              pressure |-> fields[6], weather_description |-> fields[7],
              wind_speed |-> fields[8], visibility |-> fields[9],
              aqi |-> fields[10], co |-> fields[11], no2 |-> fields[12],
              o3 |-> fields[13], pm2_5 |-> fields[14], pm10 |-> fields[15]]

\* import_environment_csv(csv_path, db): env_data is built outside the try
import_environment_csv(db, file) ==
    LET env_data == EnvironmentData(read_csv(file))
        saved == save_environment(db, env_data)
    IN  IF IsRaised(env_data) THEN [db |-> db, exc |-> env_data]
        ELSE [db |-> IF saved.exc # None THEN rollback(saved.db) ELSE saved.db,
              exc |-> None]

\* python import_csv_to_db.py <combined file>, lines 77-88: a new
\* DatabaseManager, import_properties_csv, then import_environment_csv; an
\* exception that leaves either ends the script
ImportCsvToDb ==
    /\ BatchIdle
    /\ csv # None
    /\ csv.path.kind = "combined"
    /\ Len(environment) < MaxEnvRows
    /\ LET db == Db(properties, environment, ActiveSession)
           p == import_properties_csv(db, csv)
           e == IF p.exc # None THEN p ELSE import_environment_csv(p.db, csv)
       IN  /\ Store(e.db)
           /\ ret' = e.exc
    /\ call' = Call("import_csv_to_db", csv.path, None)
    /\ batch' = NoBatch
    /\ UNCHANGED <<csv, now, writes, prop_data>>
    /\ UNCHANGED <<scraperVars, requests_json_error>>

(***************************************************************************)
(* Specifications                                                          *)
(***************************************************************************)
Init ==
    /\ pc = "idle"
    /\ args = None
    /\ weather = None
    /\ coord = None
    /\ air_quality = None
    /\ result = None
    /\ sent = <<>>
    /\ properties = <<>>
    /\ environment = <<>>
    /\ session = ActiveSession
    /\ call = Call("DatabaseManager", None, None)
    /\ batch = NoBatch
    /\ csv = None
    /\ now = 0
    /\ writes = <<>>
    /\ ret = None
    /\ prop_data = None
    /\ requests_json_error = TRUE

\* the scraper
NextScrape ==
    \/ \E city \in Cities, state \in StateCodes : ScrapeCall(city, state)
    \/ \E resp \in WeatherResponses : WeatherRequest(resp)
    \/ \E resp \in GeoResponses : GeocodeRequest(resp)
    \/ \E resp \in AqiResponses : PollutionRequest(resp)

SpecScrape == Init /\ [][NextScrape]_vars

\* property saves on one session
NextProperty ==
    \/ \E p \in PropertyInputs : SaveProperty(p)
    \/ Rollback

SpecProperty == Init /\ [][NextProperty]_vars

\* calls on DatabaseManager
EnvDataInputs == { EnvData(e) : e \in EnvelopeInputs }

NextStore ==
    \/ \E p \in PropertyInputs : SaveProperty(p)
    \/ \E e \in EnvDataInputs : SaveEnvironment(e)
    \/ Rollback

SpecStore == Init /\ [][NextStore]_vars

\* DataManager and the importer
NextBatch ==
    \/ \E rows \in PropertyLists : SavePropertiesToDb(rows)
    \/ SavePropertiesToDbStep
    \/ \E rows \in PropertyLists : ImportPropertiesCsv(rows)
    \/ ImportPropertiesCsvStep
    \/ \E data \in MainEnvelopes : SaveEnvironmentToDb(data)
    \/ NewDatabaseManager

SpecBatch == Init /\ [][NextBatch]_vars

\* the CSV files
NextCsv ==
    \/ \E data \in EnvelopeInputs, city \in Cities, state \in StateCodes :
           SaveEnvironmentData(data, city, state)
    \/ Tick

SpecCsv == Init /\ [][NextCsv]_vars

\* the three CSV saves of main, run after run
NextFiles ==
    \/ \E limit \in 0..MaxBatch : ScrapeProperties("Austin", "TX", limit)
    \/ \E data \in MainEnvelopes : SaveEnvironmentData(data, "Austin", "TX")
    \/ SavePropertyData("Austin", "TX")
    \/ \E data \in MainEnvelopes : SaveCombinedData(data, "Austin", "TX")
    \/ Tick

SpecFiles == Init /\ [][NextFiles]_vars

\* the list the caller holds, passed as data['properties']
CallerLists == IF prop_data = None THEN {} ELSE {prop_data.properties}

\* the property saves of main on one prop_data, in any order
NextShared ==
    \/ \E limit \in 0..MaxBatch : ScrapeProperties("Austin", "TX", limit)
    \/ SavePropertyData("Austin", "TX")
    \/ \E data \in {e \in MainEnvelopes : e.air_quality = None} :
           SaveCombinedData(data, "Austin", "TX")
    \/ \E rows \in CallerLists : SavePropertiesToDb(rows)
    \/ SavePropertiesToDbStep

SpecShared == Init /\ [][NextShared]_vars

\* a combined file is written and replayed
NextReplay ==
    \/ \E limit \in 0..MaxBatch : ScrapeProperties("Austin", "TX", limit)
    \/ \E data \in EnvelopeInputs : SaveCombinedData(data, "Austin", "TX")
    \/ ImportCsvToDb

SpecReplay == Init /\ [][NextReplay]_vars

(***************************************************************************)
(* Properties of scrape                                                    *)
(***************************************************************************)
Finished == pc \in {"returned", "raised"}

Succeeded(endpoint, wellFormed) ==
    \E k \in 1..Len(sent) :
        sent[k].endpoint = endpoint /\ sent[k].response \in wellFormed

WeatherSucceeded == Succeeded("weather", WellFormedWeather)
GeocodeSucceeded == Succeeded("geocode", WellFormedGeo)
PollutionSucceeded == Succeeded("air_pollution", WellFormedAqi)

\* C1: whatever the weather, geocode and pollution calls answer (success,
\* transport error, non-2xx status, empty geocode list, malformed body), a
\* scrape that has ended has returned an envelope with exactly the fields
\* weather and air_quality, and has not raised.
C1_ScrapeAlwaysReturnsEnvelope ==
    Finished => /\ pc = "returned"
                /\ DOMAIN result = {"weather", "air_quality"}

\* C2: the branches are independent: once scrape has ended, the envelope it
\* returned carries weather exactly when the weather call succeeded, whatever
\* the geocode and pollution calls answered, and carries air_quality exactly
\* when both the geocode call and the pollution call succeeded.
C2_BranchesIndependent ==
    /\ (Finished /\ WeatherSucceeded) => (pc = "returned" /\ result.weather # None)
    /\ (pc = "returned" /\ ~WeatherSucceeded) => result.weather = None
    /\ (Finished /\ GeocodeSucceeded /\ PollutionSucceeded)
           => (pc = "returned" /\ result.air_quality # None)
    /\ (pc = "returned" /\ ~(GeocodeSucceeded /\ PollutionSucceeded))
           => result.air_quality = None

AllResponsesWellFormed ==
    \A k \in 1..Len(sent) :
        sent[k].response \in WellFormedWeather \cup WellFormedGeo \cup WellFormedAqi

Echoes(d) ==
    /\ d # None
    /\ Get(d, "city") = PyStr(args.city)
    /\ Get(d, "state") = PyStr(args.state)

\* C3: when no call of a scrape failed (each answered 2xx with a well-formed
\* body), the scrape has sent its three requests and returned an envelope in
\* which weather and air_quality are both present and both carry the city and
\* the state the scrape was called with.
C3_SuccessEchoesLocation ==
    (Finished /\ AllResponsesWellFormed)
        => /\ pc = "returned"
           /\ WeatherSucceeded /\ GeocodeSucceeded /\ PollutionSucceeded
           /\ DOMAIN result = {"weather", "air_quality"}
           /\ Echoes(result.weather)
           /\ Echoes(result.air_quality)

\* C3 witness: a scrape for a city and a state of different places, all three
\* calls answered well, has returned
C3_Witness ==
    /\ pc = "returned"
    /\ WeatherSucceeded /\ GeocodeSucceeded /\ PollutionSucceeded
    /\ args.city = "Boston" /\ args.state = "TX"
    /\ result.air_quality # None

(***************************************************************************)
(* Properties of the store                                                 *)
(***************************************************************************)
RowsWithId(rows, id) == { k \in 1..Len(rows) : rows[k].property_id = id }

OneRowPerPropertyId ==
    \A i, j \in 1..Len(properties) :
        properties[i].property_id = properties[j].property_id => i = j

\* import_csv_to_db.py line 33: "UNIQUE constraint" in str(e)
IsDuplicateKeyError(e) == e # None /\ e.constraint = "UNIQUE"

IsPrefix(s, t) == Len(s) <= Len(t) /\ SubSeq(t, 1, Len(s)) = s

\* C4: in every state reached by save_property calls and rollbacks the
\* properties table holds at most one row per property_id; and a save_property
\* call whose property_id is already stored raises a duplicate-key error,
\* changes no row, and leaves exactly one row with that id.
C4_OneRowPerPropertyId ==
    /\ []OneRowPerPropertyId
    /\ [][ (call'.op = "save_property"
            /\ call'.arg.property_id \in StoredIds)
           => /\ IsDuplicateKeyError(call'.exc)
              /\ properties' = properties
              /\ Cardinality(RowsWithId(properties', call'.arg.property_id)) = 1
         ]_vars

\* C4 witness: a second and a third save of a stored id, with no rollback in
\* between, have both been refused and the table holds the row stored first
C4_Witness ==
    /\ call.op = "save_property"
    /\ call.exc # None
    /\ call.exc.exc = "PendingRollbackError"
    /\ call.arg.property_id \in StoredIds
    /\ call.arg.price = PyInt(800000)
    /\ Len(properties) = 1
    /\ properties[1].price = PyInt(200000)

BatchFinished == batch.caller # "none" /\ batch.i > Len(batch.rows)

\* a step that is one iteration of the loop of a batch save
BatchStepTaken ==
    /\ batch.caller # "none"
    /\ batch'.caller = batch.caller
    /\ batch'.rows = batch.rows
    /\ batch'.i = batch.i + 1

Stored(property_data) ==
    \E k \in 1..Len(properties) :
        \A c \in DOMAIN property_data : properties[k][c] = property_data[c]

\* C5: every insert of a batch (save_properties_to_db, import_properties_csv) is
\* its own transaction: an accepted insert adds its row to the committed table
\* at once, a rejected insert leaves the stored rows exactly as they were, and
\* no step, during the batch or after it, removes or changes a row stored
\* earlier.
C5_InsertIsOwnTransaction ==
    [][ /\ IsPrefix(properties, properties')
        /\ BatchStepTaken =>
              /\ call'.exc # None =>
                    (properties' = properties /\ environment' = environment)
              /\ call'.exc = None =>
                    properties' = Append(properties, Row("properties", call'.arg))
      ]_vars

\* C5 witness: a batch of two has ended; its first row was inserted, its second
\* was rejected, and the first is still stored
C5_Witness ==
    /\ BatchFinished
    /\ Len(batch.rows) = 2
    /\ call.exc # None
    /\ batch.rows[1].property_id \notin batch.stored_before
    /\ batch.rows[2].property_id \in batch.stored_before
    /\ Stored(batch.rows[1])

\* row idx of the batch carries an id that was not stored when the batch began
\* and that no earlier row of the batch carries
FreshInBatch(idx) ==
    /\ batch.rows[idx].property_id \notin batch.stored_before
    /\ \A j \in 1..(idx - 1) :
           batch.rows[j].property_id # batch.rows[idx].property_id

\* nothing but duplicate property ids has been rejected on the session
OnlyDuplicatesRejected ==
    session.rollback_exception = None \/ IsDuplicateKeyError(session.rollback_exception)

\* C6: a duplicate is skipped and the batch goes on: when a batch save that
\* began on a session with no failed transaction pending has ended, every row
\* of the batch whose property_id was neither stored before the batch nor
\* carried by an earlier row of it is stored.
C6_DuplicateSkippedBatchGoesOn ==
    (BatchFinished /\ batch.pending_before = None) =>
        \A idx \in 1..Len(batch.rows) : FreshInBatch(idx) => Stored(batch.rows[idx])

HasLocation(env_data) ==
    /\ Get(env_data, "city") # None
    /\ Get(env_data, "state") # None

C8_EnvironmentSaveAlwaysSucceeds ==
    (call.op = "save_environment_to_db" /\ call.arg.weather # None
     /\ OnlyDuplicatesRejected)
        => /\ call.exc = None
           /\ Len(environment) > 0
           /\ environment[Len(environment)] = Row("environment", EnvData(call.arg))

Carries(row, d, keys) == \A k \in keys : row[k] = d[k]

PendingRollbackRaised == call.exc # None /\ call.exc.exc = "PendingRollbackError"

\* C9: an absent side does not block the other: a save_environment_to_db call
\* with exactly one side of the envelope present, made on a session with no
\* failed transaction pending, has appended a row that carries the fields of
\* that side.
C9_AbsentSideDoesNotBlock ==
    (call.op = "save_environment_to_db" /\ ~PendingRollbackRaised)
        => /\ (call.arg.weather = None /\ call.arg.air_quality # None) =>
                 /\ call.exc = None
                 /\ Len(environment) > 0
                 /\ Carries(environment[Len(environment)], call.arg.air_quality,
                            AirQualityKeys)
           /\ (call.arg.weather # None /\ call.arg.air_quality = None) =>
                 /\ call.exc = None
                 /\ Len(environment) > 0
                 /\ Carries(environment[Len(environment)], call.arg.weather,
                            WeatherKeys)

(***************************************************************************)
(* Properties of the CSV projection                                        *)
(***************************************************************************)
HeaderColumns == { csv.header[k] : k \in 1..Len(csv.header) }

PrefixedColumns(prefix, side) ==
    IF side = None THEN {} ELSE { Column(prefix, k) : k \in DOMAIN side }

\* C10: the header of the file save_environment_data wrote holds, each once, a
\* weather_<field> column for every field of a present weather reading, an
\* air_quality_<field> column for every field of a present air-quality reading,
\* the column scrape_timestamp, and nothing else: no column with the prefix of
\* an absent side.
C10_HeaderFollowsPresentSides ==
    call.op = "save_environment_data" =>
        /\ csv.path.kind = "environment"
        /\ HeaderColumns = PrefixedColumns("weather_", call.arg.weather)
                           \cup PrefixedColumns("air_quality_", call.arg.air_quality)
                           \cup {Column("", "scrape_timestamp")}
        /\ Cardinality(HeaderColumns) = Len(csv.header)
        /\ call.arg.weather = None =>
               \A k \in 1..Len(csv.header) : csv.header[k].prefix # "weather_"
        /\ call.arg.air_quality = None =>
               \A k \in 1..Len(csv.header) : csv.header[k].prefix # "air_quality_"
        /\ Len(csv.rows) = 1
        /\ Len(csv.rows[1]) = Len(csv.header)

\* C10 witness: a file written from an envelope with weather and without air
\* quality: nine weather_ columns and scrape_timestamp
C10_Witness ==
    /\ call.op = "save_environment_data"
    /\ call.arg.weather # None
    /\ call.arg.air_quality = None
    /\ Len(csv.header) = 10
    /\ csv.header[1] = Column("weather_", "city")
    /\ csv.header[10] = Column("", "scrape_timestamp")

(***************************************************************************)
(* Properties of get_air_quality                                           *)
(***************************************************************************)
\* geocode responses that are failures of the transport: connection error,
\* timeout, non-2xx status
GeoTransportFailures ==
    { r \in GeoResponses : "transport" \in DOMAIN r \/ r.status >= 400 }

GeocodeAnswered(resp) ==
    \E k \in 1..Len(sent) : sent[k].endpoint = "geocode" /\ sent[k].response = resp

\* C12: the caller of get_air_quality can tell an unresolvable place name from
\* a transport failure: what get_air_quality gave back when the geocode call
\* answered with an empty list differs from what it gives back when the
\* geocode call fails with a connection error, a timeout or a non-2xx status.
C12_EmptyGeocodeDistinguishable ==
    (pc = "returned" /\ GeocodeAnswered(EmptyGeo)) =>
        \A r \in GeoTransportFailures :
            air_quality # Geocode(r, requests_json_error)

RequestsTo(endpoint) == { k \in 1..Len(sent) : sent[k].endpoint = endpoint }

Is2xx(resp) == "status" \in DOMAIN resp /\ resp.status >= 200 /\ resp.status < 300

NonEmptyList(body) == "arr" \in DOMAIN body /\ Len(body.arr) > 0

\* get_air_quality has been called by the scrape in progress and has ended
AirQualityCallEnded ==
    \/ pc = "returned"
    \/ pc = "raised" /\ Len(sent) >= 2

\* C15: one get_air_quality call sends exactly one geocode request; a pollution
\* request is sent only directly after a geocode request that was answered 2xx
\* with a non-empty list, and carries the lat and lon of the first element of
\* that list; no endpoint gets more than one request in one scrape, and a
\* geocode request that failed is followed by no request.
C15_RequestOrder ==
    /\ \A e \in {"weather", "geocode", "air_pollution"} :
           Cardinality(RequestsTo(e)) <= 1
    /\ AirQualityCallEnded => Cardinality(RequestsTo("geocode")) = 1
    /\ pc = "pollution" => Cardinality(RequestsTo("geocode")) = 1
    /\ \A k \in RequestsTo("air_pollution") :
           /\ k > 1
           /\ sent[k - 1].endpoint = "geocode"
           /\ Is2xx(sent[k - 1].response)
           /\ NonEmptyList(sent[k - 1].response.body)
           /\ sent[k].params.lat = sent[k - 1].response.body.arr[1].obj.lat
           /\ sent[k].params.lon = sent[k - 1].response.body.arr[1].obj.lon
    /\ \A k \in RequestsTo("geocode") :
           (~Is2xx(sent[k].response) /\ Finished) => k = Len(sent)

\* C15 witness: a scrape has ended after its pollution request, sent third with
\* the coordinates the geocode request returned, had failed
C15_Witness ==
    /\ pc = "returned"
    /\ Len(sent) = 3
    /\ sent[2].endpoint = "geocode"
    /\ sent[3].endpoint = "air_pollution"
    /\ sent[3].params = [lat |-> PyFloat(3027), lon |-> PyFloat(-9774)]
    /\ sent[3].response = Transport("Timeout")
    /\ air_quality = None

(***************************************************************************)
(* Properties of the CSV files                                             *)
(***************************************************************************)
CsvSaves == {"save_environment_data", "save_property_data", "save_combined_data"}

\* C11: repeated runs never collide and never overwrite: no two CSV saves
\* have written to the same path (the path names the operation, the city and
\* the state, so two writes of one operation for one place always differ in
\* their timestamp).
C11_NoTwoWritesToOnePath ==
    \A i, j \in 1..Len(writes) : writes[i] = writes[j] => i = j

KindOf(op) ==
    IF op = "save_environment_data" THEN "environment"
    ELSE IF op = "save_property_data" THEN "properties"
    ELSE "combined"

\* C14: every CSV save, whatever the envelope and the property list (the
\* empty list included), has created a file of its kind and returned the path
\* of that file, and the environment file holds exactly one data row.
C14_OneFilePerKind ==
    call.op \in CsvSaves =>
        /\ ret # PyStr("")
        /\ Len(writes) > 0
        /\ ret = writes[Len(writes)]
        /\ ret = csv.path
        /\ csv.path.kind = KindOf(call.op)
        /\ call.op = "save_environment_data" => Len(csv.rows) = 1

(***************************************************************************)
(* Properties of the shared property dicts                                 *)
(***************************************************************************)
HasStamp(prop) == "scrape_timestamp" \in DOMAIN prop

\* a step that is one iteration of the loop of save_properties_to_db
DbStepTaken ==
    /\ batch.caller = "save_properties_to_db"
    /\ batch'.caller = batch.caller
    /\ batch'.i = batch.i + 1

\* C16: the CSV saves and the database save of properties do not interfere
\* through the shared dicts: the dict save_properties_to_db passes to
\* save_property never has the key scrape_timestamp; save_properties_to_db and
\* save_combined_data leave the caller's prop_data as it was; and
\* save_property_data is the one that changes it, by giving every dict of the
\* list the key scrape_timestamp.
C16_SharedDictsDoNotInterfere ==
    [][ /\ DbStepTaken =>
              /\ ~HasStamp(call'.arg)
              /\ prop_data' = prop_data
        /\ call'.op \in {"save_properties_to_db", "save_combined_data"} =>
              prop_data' = prop_data
        /\ (prop_data # None /\ prop_data' # prop_data
            /\ call'.op # "scrape_properties") =>
              /\ call'.op = "save_property_data"
              /\ \A r \in 1..Len(prop_data'.properties) :
                     /\ HasStamp(prop_data'.properties[r])
                     /\ Without(prop_data'.properties[r], "scrape_timestamp")
                            = Without(prop_data.properties[r], "scrape_timestamp")
      ]_vars

\* C16 witness: after save_property_data and save_combined_data wrote their
\* files, save_properties_to_db has stored both dicts of the list, and the
\* caller's dicts still carry scrape_timestamp
C16_Witness ==
    /\ call.op = "save_properties_to_db"
    /\ batch.caller = "save_properties_to_db"
    /\ batch.i > Len(batch.rows)
    /\ Len(batch.rows) = 2
    /\ call.exc = None
    /\ Len(properties) = 2
    /\ Len(writes) = 2
    /\ writes[1].kind = "properties"
    /\ writes[2].kind = "combined"
    /\ \A r \in 1..2 : HasStamp(prop_data.properties[r])
    /\ \A r \in 1..2 : properties[r].scrape_timestamp = DefaultTimestamp

(***************************************************************************)
(* Properties of the replay                                                *)
(***************************************************************************)
\* the rows a list of property dicts makes in the table
PropertyRows(props) ==
    [r \in 1..Len(props) |->
        Row("properties", Without(props[r], "scrape_timestamp"))]

\* the step replays, into an empty store, the file save_combined_data has just
\* written
ReplayOfFreshFile ==
    /\ call.op = "save_combined_data"
    /\ csv # None
    /\ ret = csv.path
    /\ call'.op = "import_csv_to_db"
    /\ properties = <<>>
    /\ environment = <<>>

\* C13: round trip through the combined CSV: replaying the file that
\* save_combined_data wrote from an envelope (either side may be absent,
\* visibility may be 'N/A') and a non-empty property list, into an empty store,
\* ends without an uncaught error, with one property row per property of the
\* list carrying the same field values, and with one environment row carrying
\* the field values of the envelope.
C13_CombinedCsvRoundTrip ==
    [][ ReplayOfFreshFile =>
          /\ ret' = None
          /\ properties' = PropertyRows(prop_data.properties)
          /\ environment' = << Row("environment", EnvData(call.arg)) >>
      ]_vars

====
